---- MODULE Spec2Model ----
(***************************************************************************)
(* State-machine model of NowPlayingWidget (src/widgets/nowplayingwidget.  *)
(* cpp): the widget's fields, the two background cover loaders it talks    *)
(* to, the two QTimeLine animations, the context menu and its modal        *)
(* dialogs.  Every slot / event handler of the widget is one action; the   *)
(* handlers are written as operators from a state record to a state        *)
(* record so that a handler that calls another one (NowPlaying calls       *)
(* UpdateHeight and SetVisible, SetAlbumArt calls NowPlaying, ...) is the  *)
(* composition of the operators.                                           *)
(***************************************************************************)
EXTENDS Integers, Sequences, FiniteSets, TLC

\* ------------------------------------------------------------------ bounds

\* Requests the widget may issue to its loaders (caps the loaders' id counters).
MaxRequests == 4
\* Resolution of the show/hide timeline (ticks per 500 ms run).
ShowTicks == 2
\* Resolution of the fade timeline (ticks per 1000 ms run).
FadeTicks == 2

\* ------------------------------------------------------- program constants

kMaxCoverSize == 260
kBottomOffset == 0
kTopBorder == 4
SmallSongDetails == 0
LargeSongDetails == 1
kManuallyUnsetCover == "(unset)"

\* ------------------------------------------------------------------ inputs

\* A default-constructed Song: the value of metadata_ after construction.
EmptySong == [title |-> "", artist |-> "", album |-> "", art_manual |-> ""]

\* The tracks the player may announce: one without, one with manual art.
Songs ==
  { [title |-> "t1", artist |-> "a1", album |-> "b1", art_manual |-> ""],
    [title |-> "t2", artist |-> "a2", album |-> "b2", art_manual |-> "m2.jpg"] }

\* Heights the main window may pass to set_ideal_height.
IdealHeights == {30}

\* Widths the layout may give the widget.
Widths == {100, 300}

\* Values total_height_ may hold before UpdateHeight first assigns it: the
\* constructor's initialiser list leaves it out.
Indeterminate == {0, 17}

Modes == {SmallSongDetails, LargeSongDetails}

\* What QSettings may hold under "mode" when the widget is constructed:
\* nothing, or one stored mode.
StoredModes == {{}} \cup {{m} : m \in Modes}

LoaderNames == {"cover_loader_", "kitten_loader_"}

\* What QFileDialog::getOpenFileName may return: a null QString or a file.
FilePaths == {"f.jpg"}
DialogFiles == {""} \cup FilePaths

\* What CoverFromURLDialog::Exec and AlbumCoverSearcher::Exec may return.
DialogImages == {"null", "image"}

\* ----------------------------------------------------------------- pixmaps

NullPixmap == [null |-> TRUE]

\* QPixmap::fromImage(image)
FromImage(image) == [null |-> FALSE, by |-> image.by, for |-> image.for]

\* QPixmap(size()) painted with DrawContents: null when the size is empty.
Snapshot(w, h, details) ==
  IF w <= 0 \/ h <= 0 THEN NullPixmap
  ELSE [null |-> FALSE, title |-> details.title]

\* --------------------------------------------------------------- QTimeLine

NewTimeLine(duration) ==
  [ state |-> "NotRunning", direction |-> "Forward", duration |-> duration,
    currentTime |-> 0, startFrame |-> 0, endFrame |-> 0 ]

\* QTimeLine::frameForTime: int() going forward, qCeil() going backward, of
\* (endFrame - startFrame) * valueForTime(t).
FrameForTime(tl, t) ==
  LET span == (tl.endFrame - tl.startFrame) * t
  IN  IF tl.direction = "Forward"
      THEN tl.startFrame + (span \div tl.duration)
      ELSE tl.startFrame + ((span + tl.duration - 1) \div tl.duration)

CurrentFrame(tl) == FrameForTime(tl, tl.currentTime)

\* QTimeLinePrivate::setCurrentTime with loopCount 1: the timeline and the
\* signals it emits (valueChanged and frameChanged only on a change).
SetCurrentTime(tl, msecs) ==
  LET lastTime  == tl.currentTime
      lastFrame == CurrentFrame(tl)
      elapsed   == IF tl.direction = "Backward" THEN tl.duration - msecs ELSE msecs
      finished  == (elapsed \div tl.duration) >= 1
      norm      == elapsed % tl.duration
      time      == IF finished
                   THEN (IF tl.direction = "Backward" THEN 0 ELSE tl.duration)
                   ELSE (IF tl.direction = "Backward" THEN tl.duration - norm ELSE norm)
      moved     == [tl EXCEPT !.currentTime = time]
  IN  [ tl |-> IF finished /\ tl.state = "Running"
               THEN [moved EXCEPT !.state = "NotRunning"] ELSE moved,
        valueChanged |-> time # lastTime,
        value        |-> time,
        frameChanged |-> CurrentFrame(moved) # lastFrame,
        frame        |-> CurrentFrame(moved) ]

\* QTimeLine::setDirection
SetDirection(tl, direction) == [tl EXCEPT !.direction = direction]

\* QTimeLine::setFrameRange(0, end)
SetFrameRange(tl, end) == [tl EXCEPT !.startFrame = 0, !.endFrame = end]

\* QTimeLine::start: refused ("already running") while the timer runs, else
\* restarts from the first time of the direction.
StartTimeLine(tl) ==
  IF tl.state = "Running"
  THEN [ tl |-> tl, valueChanged |-> FALSE, value |-> tl.currentTime,
         frameChanged |-> FALSE, frame |-> CurrentFrame(tl) ]
  ELSE SetCurrentTime([tl EXCEPT !.state = "Running"],
                      IF tl.direction = "Backward" THEN tl.duration ELSE 0)

\* The times a timer event may move a running timeline to.
TickTimes(tl) ==
  IF tl.direction = "Forward"
  THEN (IF tl.currentTime >= tl.duration THEN {tl.duration}
        ELSE (tl.currentTime + 1) .. tl.duration)
  ELSE (IF tl.currentTime <= 0 THEN {0} ELSE 0 .. (tl.currentTime - 1))

\* ----------------------------------------------------------------- loaders

\* BackgroundThreadImplementation<AlbumCoverLoader, ...> and its worker.
\*   "null"      the pointer is NULL (kitten_loader_ before EnableKittens)
\*   "started"   Start() was called, the thread has not created the worker
\*   "ready"     the worker exists, Initialised() is queued for the widget
\*   "connected" CoverLoaderInitialised has run: ImageLoaded is connected
NewLoader(state) ==
  [ state |-> state, next_id |-> 0, tasks |-> << >>,
    desired_height |-> 0, pad |-> FALSE ]

WorkerIsNull(loader) == loader.state \in {"null", "started"}

\* AlbumCoverLoader::LoadImageAsync: queue the task under the loader's own
\* next id and return that id.
LoadImageAsync(loader, song) ==
  [ loader |-> [loader EXCEPT !.next_id = @ + 1,
                              !.tasks = Append(@, [id |-> loader.next_id, for |-> song])],
    id |-> loader.next_id ]

\* The image the loader produces for a task.
ImageFor(which, task) == [by |-> which, for |-> task.for]

\* AlbumCoverManager::SaveCoverInCache: the cache file of an artist's album.
SaveCoverInCache(artist, album) == "cache/" \o artist \o "-" \o album \o ".jpg"

\* ------------------------------------------------------------------- state

VARIABLES
  cover_loader_,           \* the regular loader thread and its worker
  kitten_loader_,          \* the kitten loader thread ("null" until enabled)
  backend_,                \* "null" or "set"
  mode_, visible_, small_ideal_height_, cover_height_, total_height_,
  show_hide_animation_, fade_animation_,
  load_cover_id_, details_, previous_track_, previous_track_opacity_,
  aww_, metadata_, cover_,
  width,                   \* QWidget::width()
  maximumHeight,           \* QWidget::maximumHeight()
  settings_mode,           \* QSettings "NowPlayingWidget/mode"
  ui,                      \* "idle", "menu", or the modal dialog that is open
  unset_cover_, show_cover_,   \* enabled flags of the two menu entries
  backend_calls,           \* calls the last handler made on the backend
  last_request,            \* the loader and id of the request issued last
  crashed,                 \* a handler dereferenced a null pointer
  op                       \* the handler that ran last; ".return" marks
                           \* its early return, ".visible" a NowPlaying
                           \* that found the widget visible

vars ==
  << cover_loader_, kitten_loader_, backend_, mode_, visible_,
     small_ideal_height_, cover_height_, total_height_, show_hide_animation_,
     fade_animation_, load_cover_id_, details_, previous_track_,
     previous_track_opacity_, aww_, metadata_, cover_, width, maximumHeight,
     settings_mode, ui, unset_cover_, show_cover_, backend_calls,
     last_request, crashed, op >>

\* The program state as one record, for the handlers below.
Cur ==
  [ cover_loader_ |-> cover_loader_, kitten_loader_ |-> kitten_loader_,
    backend_ |-> backend_, mode_ |-> mode_, visible_ |-> visible_,
    small_ideal_height_ |-> small_ideal_height_,
    cover_height_ |-> cover_height_, total_height_ |-> total_height_,
    show_hide_animation_ |-> show_hide_animation_,
    fade_animation_ |-> fade_animation_, load_cover_id_ |-> load_cover_id_,
    details_ |-> details_, previous_track_ |-> previous_track_,
    previous_track_opacity_ |-> previous_track_opacity_, aww_ |-> aww_,
    metadata_ |-> metadata_, cover_ |-> cover_, width |-> width,
    maximumHeight |-> maximumHeight, settings_mode |-> settings_mode,
    ui |-> ui, unset_cover_ |-> unset_cover_, show_cover_ |-> show_cover_,
    backend_calls |-> << >>, last_request |-> last_request,
    crashed |-> crashed ]

\* The widget's own state.
widget ==
  << cover_loader_, kitten_loader_, backend_, mode_, visible_,
     small_ideal_height_, cover_height_, total_height_, show_hide_animation_,
     fade_animation_, load_cover_id_, details_, previous_track_,
     previous_track_opacity_, aww_, metadata_, cover_, width, maximumHeight,
     settings_mode, ui, unset_cover_, show_cover_, backend_calls,
     last_request >>

\* The step of handler name that ends in state record S.  A handler that
\* dereferences a null pointer ends the process: nothing of the widget is
\* observable afterwards, and the state stays as the handler found it.
Commit(S, name) ==
  IF S.crashed
  THEN /\ crashed' = TRUE
       /\ op' = name
       /\ UNCHANGED widget
  ELSE
      /\ cover_loader_' = S.cover_loader_
      /\ kitten_loader_' = S.kitten_loader_
      /\ backend_' = S.backend_
      /\ mode_' = S.mode_
      /\ visible_' = S.visible_
      /\ small_ideal_height_' = S.small_ideal_height_
      /\ cover_height_' = S.cover_height_
      /\ total_height_' = S.total_height_
      /\ show_hide_animation_' = S.show_hide_animation_
      /\ fade_animation_' = S.fade_animation_
      /\ load_cover_id_' = S.load_cover_id_
      /\ details_' = S.details_
      /\ previous_track_' = S.previous_track_
      /\ previous_track_opacity_' = S.previous_track_opacity_
      /\ aww_' = S.aww_
      /\ metadata_' = S.metadata_
      /\ cover_' = S.cover_
      /\ width' = S.width
      /\ maximumHeight' = S.maximumHeight
      /\ settings_mode' = S.settings_mode
      /\ ui' = S.ui
      /\ unset_cover_' = S.unset_cover_
      /\ show_cover_' = S.show_cover_
      /\ backend_calls' = S.backend_calls
      /\ last_request' = S.last_request
      /\ crashed' = S.crashed
      /\ op' = name

\* ---------------------------------------------------------------- handlers

Min(a, b) == IF a < b THEN a ELSE b

\* The loader the handlers pick: aww_ ? kitten_loader_ : cover_loader_.
Selected(S) == IF S.aww_ THEN "kitten_loader_" ELSE "cover_loader_"

\* Whether the widget may still issue a request.
Room(S) == S.cover_loader_.next_id + S.kitten_loader_.next_id < MaxRequests

\* NowPlayingWidget::SetHeight
SetHeight(S, height) == [S EXCEPT !.maximumHeight = height]

\* NowPlayingWidget::FadePreviousTrack; qFuzzyCompare(value, 0.0) holds for
\* the value 0.0 alone.
FadePreviousTrack(S, value) ==
  [S EXCEPT !.previous_track_opacity_ = value,
            !.previous_track_ = IF value = 0 THEN NullPixmap ELSE @]

\* UpdateHeight, were it to drop the id LoadImageAsync returns instead of
\* keeping it in load_cover_id_.
UpdateHeightDropsId(S, which) ==
  LET cover == IF S.mode_ = SmallSongDetails
               THEN S.small_ideal_height_
               ELSE Min(kMaxCoverSize, S.width)
      total == IF S.mode_ = SmallSongDetails
               THEN S.small_ideal_height_
               ELSE kTopBorder + cover + kBottomOffset
      sized == [S EXCEPT
                 !.cover_height_ = cover,
                 !.total_height_ = total,
                 !.show_hide_animation_ = SetFrameRange(@, total),
                 !.maximumHeight =
                    IF S.visible_ /\ S.show_hide_animation_.state # "Running"
                    THEN total ELSE @]
  IN  IF WorkerIsNull(S[which])
      THEN [sized EXCEPT !.crashed = TRUE]
      ELSE LET r == LoadImageAsync([S[which] EXCEPT !.desired_height = cover],
                                   S.metadata_)
           IN  [sized EXCEPT ![which] = r.loader,
                             !.last_request = [by |-> which, id |-> r.id]]

\* NowPlayingWidget::UpdateHeight(loader), loader the worker of S[which].
UpdateHeight(S, which) ==
  LET cover == IF S.mode_ = SmallSongDetails
               THEN S.small_ideal_height_
               ELSE Min(kMaxCoverSize, S.width)
      total == IF S.mode_ = SmallSongDetails
               THEN S.small_ideal_height_
               ELSE kTopBorder + cover + kBottomOffset
      sized == [S EXCEPT
                 !.cover_height_ = cover,
                 !.total_height_ = total,
                 !.show_hide_animation_ = SetFrameRange(@, total),
                 !.maximumHeight =
                    IF S.visible_ /\ S.show_hide_animation_.state # "Running"
                    THEN total ELSE @]
  IN  IF WorkerIsNull(S[which])
      THEN [sized EXCEPT !.crashed = TRUE]
      ELSE LET r == LoadImageAsync([S[which] EXCEPT !.desired_height = cover],
                                   S.metadata_)
           IN  [sized EXCEPT ![which] = r.loader,
                             !.load_cover_id_ = r.id,
                             !.last_request = [by |-> which, id |-> r.id]]

\* NowPlayingWidget::UpdateDetailsText
UpdateDetailsText(S) ==
  [S EXCEPT !.details_ =
     [ align     |-> IF S.mode_ = SmallSongDetails THEN "left" ELSE "center",
       textWidth |-> IF S.mode_ = SmallSongDetails THEN -1 ELSE S.cover_height_,
       title     |-> S.metadata_.title,
       artist    |-> S.metadata_.artist,
       album     |-> S.metadata_.album ]]

\* SetVisible, were it to leave out the test visible == visible_.
SetVisibleUnconditionally(S, visible) ==
  LET r == StartTimeLine(
             SetDirection(S.show_hide_animation_,
                          IF visible THEN "Forward" ELSE "Backward"))
      T == [S EXCEPT !.visible_ = visible, !.show_hide_animation_ = r.tl]
  IN  IF r.frameChanged THEN SetHeight(T, r.frame) ELSE T

\* NowPlayingWidget::SetVisible
SetVisible(S, visible) ==
  IF visible = S.visible_ THEN S
  ELSE LET r == StartTimeLine(
                  SetDirection(S.show_hide_animation_,
                               IF visible THEN "Forward" ELSE "Backward"))
           T == [S EXCEPT !.visible_ = visible, !.show_hide_animation_ = r.tl]
       IN  IF r.frameChanged THEN SetHeight(T, r.frame) ELSE T

\* NowPlayingWidget::NowPlaying
NowPlaying(S, song) ==
  LET cached == IF S.visible_
                THEN [S EXCEPT
                       !.previous_track_ =
                          Snapshot(S.width, S.maximumHeight, S.details_),
                       !.previous_track_opacity_ = FadeTicks]
                ELSE S
      cleared == [cached EXCEPT !.metadata_ = song, !.cover_ = NullPixmap]
      loaded == UpdateHeight(cleared, Selected(cleared))
  IN  IF loaded.crashed THEN loaded
      ELSE SetVisible(UpdateDetailsText(loaded), TRUE)

\* NowPlayingWidget::Stopped
Stopped(S) == SetVisible(S, FALSE)

\* AlbumArtLoaded, were it to take every reply whatever its id.
AlbumArtLoadedAnyId(S, id, image) ==
  LET T == [S EXCEPT !.cover_ = FromImage(image)]
  IN  IF ~T.previous_track_.null
      THEN LET r == StartTimeLine(T.fade_animation_)
               U == [T EXCEPT !.fade_animation_ = r.tl]
           IN  IF r.valueChanged THEN FadePreviousTrack(U, r.value) ELSE U
      ELSE T

\* NowPlayingWidget::AlbumArtLoaded
AlbumArtLoaded(S, id, image) ==
  IF id # S.load_cover_id_ THEN S
  ELSE LET T == [S EXCEPT !.cover_ = FromImage(image)]
       IN  IF ~T.previous_track_.null
           THEN LET r == StartTimeLine(T.fade_animation_)
                    U == [T EXCEPT !.fade_animation_ = r.tl]
                IN  IF r.valueChanged THEN FadePreviousTrack(U, r.value) ELSE U
           ELSE T

\* NowPlayingWidget::CoverLoaderInitialised, sender() being S[which].
CoverLoaderInitialised(S, which) ==
  LET T == UpdateHeight(S, which)
  IN  [T EXCEPT ![which].pad = TRUE, ![which].state = "connected"]

\* NowPlayingWidget::set_ideal_height
set_ideal_height(S, height) ==
  UpdateHeight([S EXCEPT !.small_ideal_height_ = height], Selected(S))

\* SetMode, were it to leave out the write to QSettings.
SetModeForgetsSetting(S, mode) ==
  LET T == UpdateHeight([S EXCEPT !.mode_ = mode], Selected(S))
  IN  IF T.crashed THEN T ELSE UpdateDetailsText(T)

\* NowPlayingWidget::SetMode
SetMode(S, mode) ==
  LET T == UpdateHeight([S EXCEPT !.mode_ = mode], Selected(S))
  IN  IF T.crashed THEN T
      ELSE [UpdateDetailsText(T) EXCEPT !.settings_mode = {T.mode_}]

\* resizeEvent, were it to leave the heights as they are.
resizeEventKeepsHeights(S, newWidth) == [S EXCEPT !.width = newWidth]

\* NowPlayingWidget::resizeEvent for a new width (e->oldSize() is S.width)
resizeEvent(S, newWidth) ==
  LET T == [S EXCEPT !.width = newWidth]
  IN  IF S.visible_ /\ S.mode_ = LargeSongDetails /\ S.width # newWidth
      THEN LET U == UpdateHeight(T, Selected(T))
           IN  IF U.crashed THEN U ELSE UpdateDetailsText(U)
      ELSE T

\* contextMenuEvent, were it to test art_manual for emptiness alone.
contextMenuEventIgnoresUnsetMarker(S) ==
  LET art_is_set == S.metadata_.art_manual # ""
  IN  [S EXCEPT !.unset_cover_ = art_is_set, !.show_cover_ = art_is_set,
                !.ui = "menu"]

\* NowPlayingWidget::contextMenuEvent
contextMenuEvent(S) ==
  LET art_is_set == /\ S.metadata_.art_manual # ""
                    /\ S.metadata_.art_manual # kManuallyUnsetCover
  IN  [S EXCEPT !.unset_cover_ = art_is_set, !.show_cover_ = art_is_set,
                !.ui = "menu"]

\* NowPlayingWidget::EnableKittens
EnableKittens(S, aww) ==
  IF S.kitten_loader_.state = "null" /\ aww
  THEN [S EXCEPT !.kitten_loader_ = NewLoader("started"), !.aww_ = aww]
  ELSE IF aww
       THEN LET T == NowPlaying(S, S.metadata_)
            IN  IF T.crashed THEN T ELSE [T EXCEPT !.aww_ = aww]
       ELSE [S EXCEPT !.aww_ = aww]

\* SetAlbumArt, were it to leave out the final NowPlaying(metadata_).
SetAlbumArtWithoutReload(S, path) ==
  LET T == [S EXCEPT !.metadata_.art_manual = path]
  IN  IF T.backend_ = "null"
      THEN [T EXCEPT !.crashed = TRUE]
      ELSE [T EXCEPT !.backend_calls =
              Append(@, [artist |-> T.metadata_.artist,
                         album |-> T.metadata_.album, path |-> path])]

\* NowPlayingWidget::SetAlbumArt
SetAlbumArt(S, path) ==
  LET T == [S EXCEPT !.metadata_.art_manual = path]
  IN  IF T.backend_ = "null"
      THEN [T EXCEPT !.crashed = TRUE]
      ELSE NowPlaying(
             [T EXCEPT !.backend_calls =
                Append(@, [artist |-> T.metadata_.artist,
                           album |-> T.metadata_.album, path |-> path])],
             T.metadata_)

\* NowPlayingWidget::UnsetCover
UnsetCover(S) == SetAlbumArt(S, kManuallyUnsetCover)

\* NowPlayingWidget::SetLibraryBackend
SetLibraryBackend(S) == [S EXCEPT !.backend_ = "set"]

\* Built with liblastfm: the file dialog and the cover searcher are compiled in.
HAVE_LIBLASTFM == TRUE

\* LoadCoverFromFile, were it to leave out the test that the chosen file
\* loads as an image.
LoadCoverFromFileAnyFile(S, cover, loadable) ==
  IF ~HAVE_LIBLASTFM THEN S
  ELSE IF cover = "" THEN S
  ELSE SetAlbumArt(S, cover)

\* NowPlayingWidget::LoadCoverFromFile once QFileDialog::getOpenFileName has
\* returned cover ("" for a null QString); loadable: QImage(cover) is not null.
LoadCoverFromFile(S, cover, loadable) ==
  IF ~HAVE_LIBLASTFM THEN S
  ELSE IF cover = "" THEN S
  ELSE IF ~loadable THEN S
  ELSE SetAlbumArt(S, cover)

\* NowPlayingWidget::LoadCoverFromURL once cover_from_url_dialog_->Exec() has
\* returned image ("null" for a null QImage).
LoadCoverFromURL(S, image) ==
  IF image = "null" THEN S
  ELSE SetAlbumArt(S, SaveCoverInCache(S.metadata_.artist, S.metadata_.album))

\* NowPlayingWidget::SearchCover once cover_searcher_->Exec(query) has returned.
SearchCover(S, image) ==
  IF ~HAVE_LIBLASTFM THEN S
  ELSE IF image = "null" THEN S
  ELSE SetAlbumArt(S, SaveCoverInCache(S.metadata_.artist, S.metadata_.album))

\* ------------------------------------------------------------ construction

\* NowPlayingWidget::NowPlayingWidget
Init ==
  /\ cover_loader_ = NewLoader("started")
  /\ kitten_loader_ = NewLoader("null")
  /\ backend_ = "null"
  /\ settings_mode \in StoredModes
  /\ mode_ = IF settings_mode = {} THEN SmallSongDetails
             ELSE CHOOSE m \in settings_mode : TRUE
  /\ visible_ = FALSE
  /\ small_ideal_height_ = 0
  /\ cover_height_ = 0
  /\ total_height_ \in Indeterminate
  /\ show_hide_animation_ = NewTimeLine(ShowTicks)
  /\ fade_animation_ = SetDirection(NewTimeLine(FadeTicks), "Backward")
  /\ load_cover_id_ = 0
  /\ details_ = [align |-> "", textWidth |-> -1, title |-> "", artist |-> "",
                 album |-> ""]
  /\ previous_track_ = NullPixmap
  /\ previous_track_opacity_ = 0
  /\ aww_ = FALSE
  /\ metadata_ = EmptySong
  /\ cover_ = NullPixmap
  /\ width \in Widths
  /\ maximumHeight = 0
  /\ ui = "idle"
  /\ unset_cover_ = TRUE
  /\ show_cover_ = TRUE
  /\ backend_calls = << >>
  /\ last_request = [by |-> "none", id |-> 0]
  /\ crashed = FALSE
  /\ op = "NowPlayingWidget"

\* ----------------------------------------------------------------- actions

\* The loader thread's run(): the worker is created and Initialised() emitted.
ThreadRun(which) ==
  /\ ~crashed
  /\ Cur[which].state = "started"
  /\ Commit([Cur EXCEPT ![which].state = "ready"], "run")

\* Initialised() reaches the widget.
Initialised(which) ==
  /\ ~crashed
  /\ Cur[which].state = "ready"
  /\ Room(Cur)
  /\ Commit(CoverLoaderInitialised(Cur, which), "CoverLoaderInitialised")

\* The worker finishes its oldest task and emits ImageLoaded(id, image), which
\* reaches the connected widget.
ImageLoaded(which) ==
  /\ ~crashed
  /\ Cur[which].state = "connected"
  /\ Cur[which].tasks # << >>
  /\ LET task == Head(Cur[which].tasks)
     IN  Commit(AlbumArtLoaded([Cur EXCEPT ![which].tasks = Tail(@)],
                               task.id, ImageFor(which, task)),
                IF task.id # load_cover_id_
                THEN "AlbumArtLoaded.return" ELSE "AlbumArtLoaded")

\* The worker emits ImageLoaded before CoverLoaderInitialised has connected
\* it: the signal has no receiver.
ImageLoadedUnconnected(which) ==
  /\ ~crashed
  /\ Cur[which].state = "ready"
  /\ Cur[which].tasks # << >>
  /\ Commit([Cur EXCEPT ![which].tasks = Tail(@)], "unconnected")

\* The player announces a track.
PlayerNowPlaying(song) ==
  /\ ~crashed
  /\ Room(Cur)
  /\ Commit(NowPlaying(Cur, song),
            IF visible_ THEN "NowPlaying.visible" ELSE "NowPlaying")

\* The player stops.
PlayerStopped ==
  /\ ~crashed
  /\ Commit(Stopped(Cur), "Stopped")

\* The main window sets the small-mode height.
SetIdealHeight(height) ==
  /\ ~crashed
  /\ Room(Cur)
  /\ Commit(set_ideal_height(Cur, height), "set_ideal_height")

\* The layout changes the widget's width.
Resize(newWidth) ==
  /\ ~crashed
  /\ newWidth # width
  /\ Room(Cur)
  /\ Commit(resizeEvent(Cur, newWidth), "resizeEvent")

\* The player's kitten switch.
Kittens(aww) ==
  /\ ~crashed
  /\ Room(Cur)
  /\ Commit(EnableKittens(Cur, aww), "EnableKittens")

\* The main window hands over the library backend.
LibraryBackend ==
  /\ ~crashed
  /\ backend_ = "null"
  /\ Commit(SetLibraryBackend(Cur), "SetLibraryBackend")

\* A right click on the widget.
ContextMenu ==
  /\ ~crashed
  /\ ui = "idle"
  /\ Commit(contextMenuEvent(Cur), "contextMenuEvent")

\* The menu is closed without a choice.
MenuDismissed ==
  /\ ~crashed
  /\ ui = "menu"
  /\ Commit([Cur EXCEPT !.ui = "idle"], "dismissed")

\* One of the two mode entries is chosen.
MenuSetMode(mode) ==
  /\ ~crashed
  /\ ui = "menu"
  /\ Room(Cur)
  /\ Commit(SetMode([Cur EXCEPT !.ui = "idle"], mode), "SetMode")

\* "Load cover from disk...", "Load cover from URL..." or "Search for album
\* covers..." is chosen: the modal dialog opens and runs its own event loop.
MenuOpensDialog(dialog) ==
  /\ ~crashed
  /\ ui = "menu"
  /\ Commit([Cur EXCEPT !.ui = dialog], "exec")

\* The file dialog returns.
FileDialogReturns(cover, loadable) ==
  /\ ~crashed
  /\ ui = "file"
  /\ Room(Cur)
  /\ Commit(LoadCoverFromFile([Cur EXCEPT !.ui = "idle"], cover, loadable),
            IF cover = "" \/ ~loadable
            THEN "LoadCoverFromFile.return" ELSE "LoadCoverFromFile")

\* The URL dialog returns.
URLDialogReturns(image) ==
  /\ ~crashed
  /\ ui = "url"
  /\ Room(Cur)
  /\ Commit(LoadCoverFromURL([Cur EXCEPT !.ui = "idle"], image),
            IF image = "null"
            THEN "LoadCoverFromURL.return" ELSE "LoadCoverFromURL")

\* The cover searcher returns.
SearcherReturns(image) ==
  /\ ~crashed
  /\ ui = "search"
  /\ Room(Cur)
  /\ Commit(SearchCover([Cur EXCEPT !.ui = "idle"], image),
            IF image = "null" THEN "SearchCover.return" ELSE "SearchCover")

\* "Unset cover" is chosen (possible only while the entry is enabled).
MenuUnsetCover ==
  /\ ~crashed
  /\ ui = "menu"
  /\ unset_cover_
  /\ Room(Cur)
  /\ Commit(UnsetCover([Cur EXCEPT !.ui = "idle"]), "UnsetCover")

\* "Show fullsize..." is chosen: ZoomCover opens a window of its own and
\* changes nothing of the widget.
MenuZoomCover ==
  /\ ~crashed
  /\ ui = "menu"
  /\ show_cover_
  /\ Commit([Cur EXCEPT !.ui = "idle"], "ZoomCover")

\* A timer event of the running show/hide timeline: frameChanged is
\* connected to SetHeight.
ShowHideTick ==
  /\ ~crashed
  /\ show_hide_animation_.state = "Running"
  /\ \E t \in TickTimes(show_hide_animation_) :
       LET r == SetCurrentTime(show_hide_animation_, t)
           T == [Cur EXCEPT !.show_hide_animation_ = r.tl]
       IN  Commit(IF r.frameChanged THEN SetHeight(T, r.frame) ELSE T,
                  "SetHeight")

\* A timer event of the running fade timeline: valueChanged is connected to
\* FadePreviousTrack.
FadeTick ==
  /\ ~crashed
  /\ fade_animation_.state = "Running"
  /\ \E t \in TickTimes(fade_animation_) :
       LET r == SetCurrentTime(fade_animation_, t)
           T == [Cur EXCEPT !.fade_animation_ = r.tl]
       IN  Commit(IF r.valueChanged THEN FadePreviousTrack(T, r.value) ELSE T,
                  "FadePreviousTrack")

\* The application is started again: the widget is destroyed and constructed
\* anew; of its state only the stored settings outlive it.
Restart ==
  /\ cover_loader_' = NewLoader("started")
  /\ kitten_loader_' = NewLoader("null")
  /\ backend_' = "null"
  /\ settings_mode' = settings_mode
  /\ mode_' = IF settings_mode = {} THEN SmallSongDetails
              ELSE CHOOSE m \in settings_mode : TRUE
  /\ visible_' = FALSE
  /\ small_ideal_height_' = 0
  /\ cover_height_' = 0
  /\ total_height_' \in Indeterminate
  /\ show_hide_animation_' = NewTimeLine(ShowTicks)
  /\ fade_animation_' = SetDirection(NewTimeLine(FadeTicks), "Backward")
  /\ load_cover_id_' = 0
  /\ details_' = [align |-> "", textWidth |-> -1, title |-> "", artist |-> "",
                  album |-> ""]
  /\ previous_track_' = NullPixmap
  /\ previous_track_opacity_' = 0
  /\ aww_' = FALSE
  /\ metadata_' = EmptySong
  /\ cover_' = NullPixmap
  /\ width' \in Widths
  /\ maximumHeight' = 0
  /\ ui' = "idle"
  /\ unset_cover_' = TRUE
  /\ show_cover_' = TRUE
  /\ backend_calls' = << >>
  /\ last_request' = [by |-> "none", id |-> 0]
  /\ crashed' = FALSE
  /\ op' = "restart"

Next ==
  \/ \E which \in LoaderNames : ThreadRun(which)
  \/ \E which \in LoaderNames : Initialised(which)
  \/ \E which \in LoaderNames : ImageLoaded(which)
  \/ \E which \in LoaderNames : ImageLoadedUnconnected(which)
  \/ \E song \in Songs : PlayerNowPlaying(song)
  \/ PlayerStopped
  \/ \E height \in IdealHeights : SetIdealHeight(height)
  \/ \E newWidth \in Widths : Resize(newWidth)
  \/ \E aww \in BOOLEAN : Kittens(aww)
  \/ LibraryBackend
  \/ ContextMenu
  \/ MenuDismissed
  \/ \E mode \in Modes : MenuSetMode(mode)
  \/ \E dialog \in {"file", "url", "search"} : MenuOpensDialog(dialog)
  \/ \E cover \in DialogFiles, loadable \in BOOLEAN :
       FileDialogReturns(cover, loadable)
  \/ \E image \in DialogImages : URLDialogReturns(image)
  \/ \E image \in DialogImages : SearcherReturns(image)
  \/ MenuUnsetCover
  \/ MenuZoomCover
  \/ ShowHideTick
  \/ FadeTick
  \/ Restart

Spec == Init /\ [][Next]_vars

\* The widget between its two loaders: track changes, the kitten switch and
\* the loaders' start-up and replies.
NextLoaders ==
  \/ \E which \in LoaderNames : ThreadRun(which)
  \/ \E which \in LoaderNames : Initialised(which)
  \/ \E which \in LoaderNames : ImageLoaded(which)
  \/ \E which \in LoaderNames : ImageLoadedUnconnected(which)
  \/ \E song \in Songs : PlayerNowPlaying(song)
  \/ \E height \in IdealHeights : SetIdealHeight(height)
  \/ \E aww \in BOOLEAN : Kittens(aww)

SpecLoaders == Init /\ [][NextLoaders]_vars

\* The widget under the player alone: tracks start and stop, the regular
\* loader replies, both timelines tick.
NextFade ==
  \/ ThreadRun("cover_loader_")
  \/ Initialised("cover_loader_")
  \/ ImageLoaded("cover_loader_")
  \/ ImageLoadedUnconnected("cover_loader_")
  \/ \E song \in Songs : PlayerNowPlaying(song)
  \/ PlayerStopped
  \/ ShowHideTick
  \/ FadeTick

SpecFade == Init /\ [][NextFade]_vars

\* The widget's geometry: tracks start and stop, the mode, the ideal height
\* and the width change, the show/hide timeline ticks.
NextHeights ==
  \/ ThreadRun("cover_loader_")
  \/ Initialised("cover_loader_")
  \/ \E song \in Songs : PlayerNowPlaying(song)
  \/ PlayerStopped
  \/ \E height \in IdealHeights : SetIdealHeight(height)
  \/ \E newWidth \in Widths : Resize(newWidth)
  \/ ContextMenu
  \/ MenuDismissed
  \/ \E mode \in Modes : MenuSetMode(mode)
  \/ ShowHideTick

SpecHeights == Init /\ [][NextHeights]_vars

\* The context menu and its cover actions while tracks start.
NextMenu ==
  \/ ThreadRun("cover_loader_")
  \/ Initialised("cover_loader_")
  \/ ImageLoaded("cover_loader_")
  \/ \E song \in Songs : PlayerNowPlaying(song)
  \/ LibraryBackend
  \/ ContextMenu
  \/ MenuDismissed
  \/ \E dialog \in {"file", "url", "search"} : MenuOpensDialog(dialog)
  \/ \E cover \in DialogFiles, loadable \in BOOLEAN :
       FileDialogReturns(cover, loadable)
  \/ \E image \in DialogImages : URLDialogReturns(image)
  \/ \E image \in DialogImages : SearcherReturns(image)
  \/ MenuUnsetCover
  \/ MenuZoomCover

SpecMenu == Init /\ [][NextMenu]_vars

\* ------------------------------------------------------------- properties

\* The loader called which.
LoaderOf(which) ==
  IF which = "cover_loader_" THEN cover_loader_ ELSE kitten_loader_

\* A step in which the worker of which delivers its oldest reply to
\* AlbumArtLoaded.
Delivers(which) ==
  /\ op' \in {"AlbumArtLoaded", "AlbumArtLoaded.return"}
  /\ LoaderOf(which).tasks # << >>
  /\ LoaderOf(which)'.tasks = Tail(LoaderOf(which).tasks)

\* C1: the displayed cover reflects the most recently announced track: a
\* cover on display was loaded for the track metadata_ holds, although
\* cover_loader_ and kitten_loader_ each number their own requests.
CoverReflectsLatestTrack ==
  (~crashed /\ ~cover_.null) => cover_.for = metadata_

\* C2: a reply whose id differs from load_cover_id_ changes neither cover_,
\* previous_track_ nor previous_track_opacity_ and starts no fade.
StaleReplyChangesNothing ==
  [][op' = "AlbumArtLoaded.return" =>
       UNCHANGED << cover_, previous_track_, previous_track_opacity_,
                    fade_animation_ >>]_vars

\* A stale reply arrives while the previous track's snapshot waits for the
\* fade to start.
StaleReplyWhileSnapshotWaits ==
  /\ op = "AlbumArtLoaded.return"
  /\ ~previous_track_.null
  /\ fade_animation_.state = "NotRunning"
  /\ previous_track_opacity_ = FadeTicks

\* C3: load_cover_id_ holds the id of the newest request from the moment it
\* is issued, so when the reply to the newest request is delivered, it is
\* accepted and cover_ becomes that reply's image.
NewestReplyAccepted ==
  /\ [](last_request.by # "none" => load_cover_id_ = last_request.id)
  /\ [][\A which \in LoaderNames :
          ( /\ Delivers(which)
            /\ last_request.by = which
            /\ last_request.id = Head(LoaderOf(which).tasks).id )
          => ( /\ op' = "AlbumArtLoaded"
               /\ cover_' = FromImage(ImageFor(which,
                                               Head(LoaderOf(which).tasks))) )
       ]_vars

\* The kitten loader's reply to the newest request has been accepted.
NewestKittenReplyAccepted ==
  /\ op = "AlbumArtLoaded"
  /\ ~cover_.null
  /\ cover_.by = "kitten_loader_"
  /\ last_request.by = "kitten_loader_"
  /\ kitten_loader_.tasks = << >>
  /\ metadata_.title # ""
  /\ cover_.for = metadata_

\* C4: after NowPlaying on a hidden widget, with no Stopped afterwards, once
\* the show/hide timeline has finished the maximum height is total_height_,
\* and it stays so.
ShownHeightSettles ==
  (~crashed /\ visible_ /\ show_hide_animation_.state = "NotRunning")
    => maximumHeight = total_height_

\* C5: after Stopped, with no NowPlaying afterwards, once the show/hide
\* timeline has finished the maximum height is 0, and it stays 0.
HiddenHeightSettles ==
  (~crashed /\ ~visible_ /\ show_hide_animation_.state = "NotRunning")
    => maximumHeight = 0

\* C6: the fade of the previous track does not begin before the new track's
\* cover is accepted, also when NowPlaying arrives while a fade is running:
\* from NowPlaying on a visible widget until AlbumArtLoaded accepts a reply,
\* the snapshot stays at full opacity.
FadeWaitsForCover ==
  [][( /\ op = "NowPlaying.visible"
       /\ ~previous_track_.null
       /\ op' # "AlbumArtLoaded"
       /\ ~crashed' )
     => ( /\ ~previous_track_'.null
          /\ previous_track_opacity_' = FadeTicks )]_vars

\* C7: a fade that has started runs from 1.0 down to 0.0: when AlbumArtLoaded
\* has accepted a reply with a snapshot pending, the fade timeline runs and
\* previous_track_opacity_ is the value the timeline stands at.
FadeFollowsTimeline ==
  (op = "AlbumArtLoaded" /\ ~previous_track_.null)
    => ( /\ fade_animation_.state = "Running"
         /\ previous_track_opacity_ = fade_animation_.currentTime )

\* The handlers that end in SetAlbumArt.
CoverActions ==
  {"LoadCoverFromFile", "LoadCoverFromURL", "SearchCover", "UnsetCover"}

\* The paths the handler called name may hand to SetAlbumArt.
PathsOf(name) ==
  CASE name = "LoadCoverFromFile" -> FilePaths
    [] name = "UnsetCover" -> {kManuallyUnsetCover}
    [] OTHER -> {SaveCoverInCache(metadata_.artist, metadata_.album)}

\* C8: a cover action that yields a path and returns stores the path in
\* metadata_.art_manual, calls backend_->UpdateManualAlbumArtAsync exactly
\* once with the track's artist, album and that path, and reloads the display
\* as NowPlaying(metadata_) does: cover_ cleared, a new request issued for
\* the updated metadata and its id kept in load_cover_id_, widget visible.
CoverActionReloads ==
  [][(op' \in CoverActions /\ ~crashed') =>
       \E path \in PathsOf(op') :
         /\ metadata_' = [metadata_ EXCEPT !.art_manual = path]
         /\ backend_calls' = << [artist |-> metadata_.artist,
                                 album |-> metadata_.album,
                                 path |-> path] >>
         /\ cover_'.null
         /\ visible_'
         /\ last_request'.by = Selected(Cur)
         /\ last_request'.id = LoaderOf(Selected(Cur)).next_id
         /\ load_cover_id_' = last_request'.id
         /\ LoaderOf(Selected(Cur))'.tasks =
              Append(LoaderOf(Selected(Cur)).tasks,
                     [id |-> load_cover_id_', for |-> metadata_'])
    ]_vars

\* A cover fetched from a URL has replaced the cover on display.
CoverFromURLReloaded ==
  /\ op = "LoadCoverFromURL"
  /\ ~crashed
  /\ Len(backend_calls) = 1
  /\ metadata_.title # ""
  /\ cover_.null

\* C9: when the context menu opens, "Unset cover" and "Show fullsize..." are
\* enabled exactly when art_manual is neither empty nor the unset marker; and
\* after UnsetCover art_manual is the marker, which only a cover action or a
\* newly announced track replaces by a cover's path.
MenuEntriesFollowManualArt ==
  [][/\ op' = "contextMenuEvent" =>
          LET art_is_set == /\ metadata_.art_manual # ""
                            /\ metadata_.art_manual # kManuallyUnsetCover
          IN  /\ unset_cover_' = art_is_set
              /\ show_cover_' = art_is_set
     /\ (op' = "UnsetCover" /\ ~crashed') =>
          metadata_'.art_manual = kManuallyUnsetCover
     /\ ( /\ metadata_.art_manual \in {"", kManuallyUnsetCover}
          /\ metadata_'.art_manual \notin {"", kManuallyUnsetCover} ) =>
          op' \in (CoverActions \ {"UnsetCover"})
                    \cup {"NowPlaying", "NowPlaying.visible"}
    ]_vars

\* The menu opens on a track whose cover was unset: both entries are disabled.
MenuOpensOnUnsetCover ==
  /\ op = "contextMenuEvent"
  /\ metadata_.art_manual = kManuallyUnsetCover
  /\ ~unset_cover_
  /\ ~show_cover_

\* The handlers' early returns: no selection was made.
CancelledActions ==
  {"LoadCoverFromFile.return", "LoadCoverFromURL.return", "SearchCover.return"}

\* C10: a cancelled or failed selection (null file name, file that is not an
\* image, null image from the URL dialog or from the searcher) changes
\* neither metadata_ nor the display and makes no call to the backend.
CancelledSelectionChangesNothing ==
  [][op' \in CancelledActions =>
       /\ UNCHANGED << metadata_, cover_, load_cover_id_, previous_track_,
                       previous_track_opacity_, visible_, maximumHeight,
                       cover_loader_, kitten_loader_ >>
       /\ backend_calls' = << >>
       /\ ~crashed'
    ]_vars

\* A file that is not an image was chosen while a cover was on display.
FailedFileSelection ==
  /\ op = "LoadCoverFromFile.return"
  /\ ~cover_.null
  /\ backend_ = "set"

\* The handlers that call UpdateHeight.
UpdateHeightCallers ==
  {"set_ideal_height", "NowPlaying", "NowPlaying.visible", "SetMode",
   "resizeEvent", "EnableKittens", "CoverLoaderInitialised"}

\* C11: no handler uses a loader that is not ready: every call of
\* UpdateHeight receives a non-null worker, for every ordering of the
\* handlers with the two loaders' start-up.
WorkerNeverNull ==
  ~(crashed /\ op \in UpdateHeightCallers)

\* C12: once EnableKittens(aww) has returned and the kitten loader is
\* initialised, the newest request, the one load_cover_id_ identifies, was
\* issued to the kitten loader if aww is true and to the regular loader if
\* aww is false.
LoaderFollowsKittenSwitch ==
  ( /\ op = "EnableKittens"
    /\ ~crashed
    /\ kitten_loader_.state = "connected" )
  => ( /\ last_request.by = Selected(Cur)
       /\ last_request.id = load_cover_id_ )

\* The widget around a stop: tracks start and stop while the main window
\* sizes the widget, the kitten switch is thrown and the loaders start up
\* and reply.
NextStopped ==
  \/ \E which \in LoaderNames : ThreadRun(which)
  \/ \E which \in LoaderNames : Initialised(which)
  \/ \E which \in LoaderNames : ImageLoaded(which)
  \/ \E song \in Songs : PlayerNowPlaying(song)
  \/ PlayerStopped
  \/ \E height \in IdealHeights : SetIdealHeight(height)
  \/ \E newWidth \in Widths : Resize(newWidth)
  \/ \E aww \in BOOLEAN : Kittens(aww)

SpecStopped == Init /\ [][NextStopped]_vars

\* C13: after Stopped, visible_ stays false and the show animation is not
\* started until the player's next NowPlaying: no other handler shows the
\* widget.
StoppedStaysHidden ==
  [][( /\ ~visible_
       /\ show_hide_animation_.direction = "Backward"
       /\ op' # "NowPlaying" )
     => ( /\ ~visible_'
          /\ show_hide_animation_'.direction = "Backward" )]_vars

\* The handlers that resize without a change of visibility.
HiddenResizers == {"SetMode", "set_ideal_height", "CoverLoaderInitialised"}

\* SetMode, set_ideal_height and a loader's initialisation leave the maximum
\* height of a hidden widget as it is.
HiddenResizersKeepHeight ==
  [][( /\ ~visible_
       /\ op' \in HiddenResizers )
     => maximumHeight' = maximumHeight]_vars

\* C14: a hidden widget stays collapsed: whenever visible_ is false and the
\* show/hide animation is not running the maximum height is 0, and SetMode,
\* set_ideal_height and a loader's initialisation never enlarge a hidden
\* widget.
HiddenWidgetCollapsed ==
  /\ []( ( /\ ~crashed
           /\ ~visible_
           /\ show_hide_animation_.state # "Running" )
         => maximumHeight = 0 )
  /\ HiddenResizersKeepHeight

\* C15: the show/hide animation is started only when visibility changes: a
\* NowPlaying on a visible widget leaves the timeline's state, direction and
\* time alone, a Stopped on a hidden widget changes nothing at all, and a
\* step that changes visible_ leaves the timeline running, Forward if
\* visible_ is now true and Backward if it is false.
ShowHideStartsOnChange ==
  [][/\ (op' = "NowPlaying.visible" /\ ~crashed') =>
          /\ visible_'
          /\ show_hide_animation_'.state = show_hide_animation_.state
          /\ show_hide_animation_'.direction = show_hide_animation_.direction
          /\ show_hide_animation_'.currentTime =
               show_hide_animation_.currentTime
     /\ (op' = "Stopped" /\ ~visible_) => UNCHANGED widget
     /\ (visible_' # visible_) =>
          /\ show_hide_animation_'.state = "Running"
          /\ show_hide_animation_'.direction =
               IF visible_' THEN "Forward" ELSE "Backward"
    ]_vars

\* A track starts on a fully shown widget: the timeline stays at rest.
NowPlayingOnShownWidget ==
  /\ op = "NowPlaying.visible"
  /\ visible_
  /\ show_hide_animation_.state = "NotRunning"
  /\ show_hide_animation_.currentTime = ShowTicks
  /\ maximumHeight = total_height_
  /\ maximumHeight > 0

\* C16: while the widget is shown the heights match the mode: in small mode
\* cover_height_ = total_height_ = small_ideal_height_, in large mode
\* cover_height_ = min(260, width) and total_height_ = cover_height_ + 4; and
\* the height asked of the loader by the latest request is cover_height_.
HeightsMatchMode ==
  visible_ =>
    /\ IF mode_ = SmallSongDetails
       THEN /\ cover_height_ = small_ideal_height_
            /\ total_height_ = small_ideal_height_
       ELSE /\ cover_height_ = Min(260, width)
            /\ total_height_ = cover_height_ + 4
    /\ last_request.by # "none"
    /\ LoaderOf(last_request.by).desired_height = cover_height_

\* A shown widget in large mode has been widened beyond the largest cover.
WidenedInLargeMode ==
  /\ op = "resizeEvent"
  /\ ~crashed
  /\ visible_
  /\ mode_ = LargeSongDetails
  /\ width = 300
  /\ cover_height_ = 260
  /\ total_height_ = 264

\* The widget's sizes without the animation's ticks: tracks start and stop,
\* the mode, the ideal height and the width change.
NextSizes ==
  \/ ThreadRun("cover_loader_")
  \/ Initialised("cover_loader_")
  \/ \E song \in Songs : PlayerNowPlaying(song)
  \/ PlayerStopped
  \/ \E height \in IdealHeights : SetIdealHeight(height)
  \/ \E newWidth \in Widths : Resize(newWidth)
  \/ ContextMenu
  \/ MenuDismissed
  \/ \E mode \in Modes : MenuSetMode(mode)

SpecSizes == Init /\ [][NextSizes]_vars

\* The mode across restarts: the mode entries of the context menu while
\* tracks start, and the application's restart.
NextModes ==
  \/ ThreadRun("cover_loader_")
  \/ Initialised("cover_loader_")
  \/ \E song \in Songs : PlayerNowPlaying(song)
  \/ \E newWidth \in Widths : Resize(newWidth)
  \/ ContextMenu
  \/ MenuDismissed
  \/ \E mode \in Modes : MenuSetMode(mode)
  \/ Restart

SpecModes == Init /\ [][NextModes]_vars

\* C17: the display mode survives a restart: a SetMode(m) that returns
\* leaves mode_ = m and the stored setting "mode" = m, issues a new load
\* request and rebuilds the details text for mode m; the stored setting, when
\* there is one, is always mode_; and a widget constructed afterwards starts
\* in the stored mode, in small mode when nothing is stored.
ModeSurvivesRestart ==
  /\ [](settings_mode # {} => settings_mode = {mode_})
  /\ [][/\ \A m \in Modes :
             (MenuSetMode(m) /\ ~crashed') =>
               /\ mode_' = m
               /\ settings_mode' = {m}
               /\ last_request' = [by |-> Selected(Cur),
                                   id |-> LoaderOf(Selected(Cur)).next_id]
               /\ load_cover_id_' = last_request'.id
               /\ details_'.align =
                    IF m = SmallSongDetails THEN "left" ELSE "center"
               /\ details_'.textWidth =
                    IF m = SmallSongDetails THEN -1 ELSE cover_height_'
        /\ Restart =>
             mode_' = IF settings_mode = {} THEN SmallSongDetails
                      ELSE mode_
       ]_vars

\* The application has been started again with large mode stored.
RestartedInLargeMode ==
  /\ op = "restart"
  /\ settings_mode = {LargeSongDetails}
  /\ mode_ = LargeSongDetails
  /\ ~visible_

====
